---- MODULE Spec2Model ----
(***************************************************************************)
(* Gridix: the SQL import splitter (parse_sql_file), the data grid's       *)
(* editing state (DataGridState) and the message loop of the application   *)
(* (DbManagerApp::handle_messages / update).                               *)
(***************************************************************************)
EXTENDS Integers, Sequences, FiniteSets, TLC

VARIABLES
    content,        \* parse_sql_file: the file text, a sequence of characters
    config,         \* parse_sql_file: SqlImportConfig (strip_comments, strip_empty_lines)
    preview,        \* parse_sql_file: the ImportPreview returned, or NoPreview before the call
    grid,           \* DataGridState
    last_op,        \* DataGridState: the name of the operation performed last
    app,            \* DbManagerApp: connecting, executing, the active connection,
                    \*   the notifications, the loading flags, the running tasks
    chan,           \* DbManagerApp: the messages in the channel tx -> rx, oldest first
    pc,             \* the UI thread: "idle" between frames, "messages" inside
                    \*   handle_messages, "body" in the rest of update()
    input,          \* the current frame was started by an input event of the user
    repaint,        \* a repaint is requested (ctx.request_repaint())
    sent,           \* history: the number of messages sent so far
    done,           \* history: the numbers of the messages handled so far, in order
    snapshot,       \* history: the messages in the channel when handle_messages was called
    handled,        \* history: <<message, handler>> for each message of the current call
    view,           \* DbManagerApp: selected_table, result, grid_state.primary_key_column
                    \*   and the QueryDone / PrimaryKeyFetched messages under way
    filt,           \* DataGrid: grid_state.filters and the filter cache
    tabs,           \* QueryTabManager and the editor of the application
    focus,          \* DbManagerApp: focus_area and the key of the current frame
    er,             \* DbManagerApp: er_diagram_state and the messages of its load
    side            \* SidebarPanelState: triggers, routines and their requests

vars == <<content, config, preview, grid, last_op,
          app, chan, pc, input, repaint, sent, done, snapshot, handled,
          view, filt, tabs, focus, er, side>>

sqlVars == <<content, config, preview>>

gridVars == <<grid, last_op>>

appVars == <<app, chan, pc, input, repaint, sent, done, snapshot, handled>>

restVars == <<view, filt, tabs, focus, er, side>>

(***************************************************************************)
(* Bounds                                                                  *)
(***************************************************************************)
\* longest file text enumerated character by character
MaxLen == 4
\* longest file text made of repeated "a;" statements
MaxStmts == 12
\* largest number of rows and of columns of the grid a cursor operation is given
MaxDim == 2
\* largest count prefix
MaxCount == 2
\* largest number of entries of rows_to_delete and of new_rows
MaxEdits == 1
\* number of bits of usize and isize in the model (64 in the build)
UsizeBits == 16
\* largest number of background tasks spawned in one run
MaxTasks == 3
\* largest number of tables of a connection
MaxTables == 1
\* largest number of notifications told apart (more count as MaxNotes)
MaxNotes == 1
\* largest number of table switches in one run
MaxSwitches == 3
\* largest number of filter conditions
MaxFilters == 2
\* max_tabs of the QueryTabManager in the model (20 in the build)
MaxTabs == 2
\* largest number of trigger and routine list requests
MaxRequests == 3

(***************************************************************************)
(* Small helpers                                                           *)
(***************************************************************************)
Last(s) == s[Len(s)]

Max(a, b) == IF a >= b THEN a ELSE b

Min(a, b) == IF a <= b THEN a ELSE b

RECURSIVE Concat(_)
Concat(ss) == IF ss = <<>> THEN <<>> ELSE Head(ss) \o Concat(Tail(ss))

Range(s) == {s[i] : i \in 1..Len(s)}

(***************************************************************************)
(* parse_sql_file                                                          *)
(*                                                                         *)
(* Text handled by the parser is kept as a sequence of POSITIONS of the    *)
(* file text (1..Len(content)); position 0 stands for a '\n' that the      *)
(* parser inserts itself between two lines of one statement.  The          *)
(* characters of a piece of text are obtained with TextOf.                 *)
(***************************************************************************)
NL == "\n"

Alphabet == {"a", ";", "'", "\"", "-", "#", "/", "*", " ", NL}

CharAt(c, p) == IF p = 0 THEN NL ELSE c[p]

TextOf(c, ps) == [k \in 1..Len(ps) |-> CharAt(c, ps[k])]

IsWhitespace(ch) == ch \in {" ", NL}

\* str::trim on a piece of text
RECURSIVE TrimStart(_, _)
TrimStart(c, ps) ==
    IF ps # <<>> /\ IsWhitespace(CharAt(c, Head(ps))) THEN TrimStart(c, Tail(ps)) ELSE ps

RECURSIVE TrimEnd(_, _)
TrimEnd(c, ps) ==
    IF ps # <<>> /\ IsWhitespace(CharAt(c, Last(ps)))
    THEN TrimEnd(c, SubSeq(ps, 1, Len(ps) - 1)) ELSE ps

Trim(c, ps) == TrimEnd(c, TrimStart(c, ps))

\* str::lines: the positions of each line, without its '\n'; a final '\n'
\* does not open another line
RECURSIVE LinesFrom(_, _)
LinesFrom(c, from) ==
    IF from > Len(c) THEN <<>>
    ELSE LET ends == {k \in from..Len(c) : c[k] = NL}
             stop == IF ends = {} THEN Len(c) + 1
                     ELSE CHOOSE k \in ends : \A j \in ends : k <= j
         IN <<[k \in 1..(stop - from) |-> from + k - 1]>> \o LinesFrom(c, stop + 1)

Lines(c) == LinesFrom(c, 1)

\* the local variables of parse_sql_file before the first line
InitialScan ==
    [statements |-> <<>>, warnings |-> <<>>, current_statement |-> <<>>,
     in_block_comment |-> FALSE, in_string |-> FALSE, string_char |-> "\"",
     processed_line |-> <<>>, splits |-> <<>>]

\* EndStatement without the test for a bare ';'
EndStatement_KeepBare(c, s, p) ==
    LET cur  == s.current_statement \o s.processed_line \o <<p>>
        stmt == Trim(c, cur)
    IN [s EXCEPT !.statements = IF stmt # <<>> THEN Append(@, stmt) ELSE @,
                 !.current_statement = <<>>,
                 !.processed_line = <<>>,
                 !.splits = Append(@, p)]

\* the statement-end branch: ';' outside a string and outside a block comment
EndStatement(c, s, p) ==
    LET cur  == s.current_statement \o s.processed_line \o <<p>>
        stmt == Trim(c, cur)
    IN [s EXCEPT !.statements = IF stmt # <<>> /\ TextOf(c, stmt) # <<";">>
                                THEN Append(@, stmt) ELSE @,
                 !.current_statement = <<>>,
                 !.processed_line = <<>>,
                 !.splits = Append(@, p)]

\* the while loop over the characters of one line, from character i on
RECURSIVE ScanChars(_, _, _, _, _)
ScanChars(c, cfg, line, i, s) ==
    IF i > Len(line) THEN s
    ELSE
      LET p   == line[i]
          ch  == c[p]
          two == i + 1 <= Len(line)
          nx  == IF two THEN c[line[i + 1]] ELSE ""
      IN
      IF s.in_block_comment THEN
          IF two /\ ch = "*" /\ nx = "/"
          THEN ScanChars(c, cfg, line, i + 2, [s EXCEPT !.in_block_comment = FALSE])
          ELSE ScanChars(c, cfg, line, i + 1, s)
      ELSE IF s.in_string THEN
          IF ch = s.string_char
          THEN IF two /\ nx = s.string_char
               THEN ScanChars(c, cfg, line, i + 2,
                        [s EXCEPT !.processed_line = @ \o <<p, line[i + 1]>>])
               ELSE ScanChars(c, cfg, line, i + 1,
                        [s EXCEPT !.processed_line = Append(@, p), !.in_string = FALSE])
          ELSE ScanChars(c, cfg, line, i + 1, [s EXCEPT !.processed_line = Append(@, p)])
      ELSE IF cfg.strip_comments /\ two /\ ch = "/" /\ nx = "*" THEN
          ScanChars(c, cfg, line, i + 2, [s EXCEPT !.in_block_comment = TRUE])
      ELSE IF cfg.strip_comments /\ two /\ ch = "-" /\ nx = "-" THEN
          s
      ELSE IF cfg.strip_comments /\ ch = "#" THEN
          s
      ELSE IF ch = "'" \/ ch = "\"" THEN
          ScanChars(c, cfg, line, i + 1,
              [s EXCEPT !.in_string = TRUE, !.string_char = ch,
                        !.processed_line = Append(@, p)])
      ELSE IF ch = ";" THEN
          ScanChars(c, cfg, line, i + 1, EndStatement(c, s, p))
      ELSE
          ScanChars(c, cfg, line, i + 1, [s EXCEPT !.processed_line = Append(@, p)])

\* after the while loop: the rest of the processed line joins the statement
EndLine(c, cfg, s) ==
    LET trimmed == Trim(c, s.processed_line)
        cur     == s.current_statement
        sep     == IF cur # <<>> /\ CharAt(c, Last(cur)) # NL THEN <<0>> ELSE <<>>
    IN IF ~cfg.strip_empty_lines \/ trimmed # <<>>
       THEN [s EXCEPT !.current_statement = cur \o sep \o trimmed, !.processed_line = <<>>]
       ELSE [s EXCEPT !.processed_line = <<>>]

\* one iteration of the for loop over the lines
ScanLine(c, cfg, line, s) ==
    EndLine(c, cfg, ScanChars(c, cfg, line, 1, [s EXCEPT !.processed_line = <<>>]))

RECURSIVE ScanLines(_, _, _, _)
ScanLines(c, cfg, lines, s) ==
    IF lines = <<>> THEN s
    ELSE ScanLines(c, cfg, Tail(lines), ScanLine(c, cfg, Head(lines), s))

\* the last statement, which may have no semicolon
FinalStatement(c, s) ==
    LET final_stmt == Trim(c, s.current_statement)
    IN IF final_stmt # <<>>
       THEN [s EXCEPT !.statements = Append(@, final_stmt),
                      !.warnings = Append(@, "LastStatementHasNoSemicolon")]
       ELSE s

\* statements.retain(|s| !s.trim().is_empty())
RetainNonEmpty(c, stmts) == SelectSeq(stmts, LAMBDA st : Trim(c, st) # <<>>)

PreviewLimit == 10

Take(s, n) == SubSeq(s, 1, Min(n, Len(s)))

NoPreview == [called |-> FALSE]

parse_sql_file(c, cfg) ==
    LET s     == FinalStatement(c, ScanLines(c, cfg, Lines(c), InitialScan))
        stmts == RetainNonEmpty(c, s.statements)
    IN [called          |-> TRUE,
        columns         |-> <<"SQL">>,
        preview_rows    |-> [k \in 1..Len(Take(stmts, PreviewLimit)) |-> <<stmts[k]>>],
        total_rows      |-> Len(stmts),
        statement_count |-> Len(stmts),
        warnings        |-> s.warnings,
        sql_statements  |-> stmts,
        splits          |-> s.splits]

(***************************************************************************)
(* DataGridState                                                           *)
(***************************************************************************)
None == <<>>

Some(x) == <<x>>

Unwrap(o) == o[1]

\* usize and isize: the values of usize are 0..UsizeMax, `as isize` reads the
\* same bits in two's complement and `as usize` goes back
UsizeRange == 2 ^ UsizeBits

UsizeMax == UsizeRange - 1

IsizeMax == 2 ^ (UsizeBits - 1) - 1

AsIsize(u) == IF u > IsizeMax THEN u - UsizeRange ELSE u

AsUsize(i) == i % UsizeRange

\* isize arithmetic of the release build wraps around
WrapIsize(i) == AsIsize(i % UsizeRange)

\* usize::saturating_sub
SaturatingSub(a, b) == IF a >= b THEN a - b ELSE 0

GridModes == {"Normal", "Insert", "Select"}

\* DataGridState::new(): the mode, the cursor, the selection, the pending
\* edits, the command buffer and the count prefix (the scroll targets, the
\* caches, the filters and the dialog flags are not part of the model)
DataGridState_new ==
    [mode |-> "Normal", cursor |-> <<0, 0>>, select_anchor |-> None,
     editing_cell |-> None, edit_text |-> "",
     modified_cells |-> {}, rows_to_delete |-> <<>>, new_rows |-> <<>>,
     command_buffer |-> "", count |-> None]

\* clear_edits that forgets the new rows
clear_edits_KeepNewRows(g) ==
    [g EXCEPT !.editing_cell = None, !.edit_text = "",
              !.modified_cells = {}, !.rows_to_delete = <<>>]

clear_edits(g) ==
    [g EXCEPT !.editing_cell = None, !.edit_text = "",
              !.modified_cells = {}, !.rows_to_delete = <<>>, !.new_rows = <<>>]

has_changes(g) == g.modified_cells # {} \/ g.rows_to_delete # <<>> \/ g.new_rows # <<>>

\* get_selection that takes the anchor for the upper left corner
get_selection_AnchorFirst(g) ==
    IF g.select_anchor = None THEN None
    ELSE LET anchor == Unwrap(g.select_anchor)
         IN Some(<<anchor, <<Max(anchor[1], g.cursor[1]), Max(anchor[2], g.cursor[2])>>>>)

get_selection(g) ==
    IF g.select_anchor = None THEN None
    ELSE LET anchor  == Unwrap(g.select_anchor)
             min_row == Min(anchor[1], g.cursor[1])
             max_row == Max(anchor[1], g.cursor[1])
             min_col == Min(anchor[2], g.cursor[2])
             max_col == Max(anchor[2], g.cursor[2])
         IN Some(<<<<min_row, min_col>>, <<max_row, max_col>>>>)

is_in_selection(g, row, col) ==
    LET sel == get_selection(g)
    IN IF sel # None
       THEN LET min_r == Unwrap(sel)[1][1]
                min_c == Unwrap(sel)[1][2]
                max_r == Unwrap(sel)[2][1]
                max_c == Unwrap(sel)[2][2]
            IN row >= min_r /\ row <= max_r /\ col >= min_c /\ col <= max_c
       ELSE FALSE

move_cursor(g, delta_row, delta_col, max_row, max_col) ==
    LET count   == AsIsize(IF g.count = None THEN 1 ELSE Unwrap(g.count))
        new_row == AsUsize(Min(Max(WrapIsize(AsIsize(g.cursor[1]) + WrapIsize(delta_row * count)), 0),
                               WrapIsize(AsIsize(max_row) - 1)))
        new_col == AsUsize(Min(Max(WrapIsize(AsIsize(g.cursor[2]) + WrapIsize(delta_col * count)), 0),
                               WrapIsize(AsIsize(max_col) - 1)))
    IN [g EXCEPT !.cursor = <<new_row, new_col>>, !.count = None]

goto_line_start(g) == [g EXCEPT !.cursor[2] = 0, !.count = None]

goto_line_end(g, max_col) == [g EXCEPT !.cursor[2] = SaturatingSub(max_col, 1), !.count = None]

\* goto_file_start that leaves the command buffer
goto_file_start_KeepBuffer(g) ==
    [g EXCEPT !.cursor = <<0, 0>>, !.count = None]

goto_file_start(g) ==
    [g EXCEPT !.cursor = <<0, 0>>, !.count = None, !.command_buffer = ""]

goto_file_end(g, max_row) ==
    [g EXCEPT !.cursor[1] = SaturatingSub(max_row, 1), !.count = None]

(***************************************************************************)
(* DbManagerApp: the channel, the background tasks and the frame loop      *)
(***************************************************************************)
Kinds ==
    {"ConnectedWithTables", "ConnectedWithDatabases", "DatabaseSelected",
     "QueryDone", "PrimaryKeyFetched", "TriggersFetched", "RoutinesFetched",
     "ForeignKeysFetched", "ERTableColumnsFetched"}

\* DbManagerApp::new(): an empty channel, nothing connecting or executing
App_new ==
    [connecting |-> FALSE, executing |-> FALSE,
     active |-> FALSE, n_tables |-> 0,
     notifications |-> 0,
     loading_triggers |-> FALSE, loading_routines |-> FALSE, er_loading |-> FALSE,
     tasks |-> [k \in Kinds |-> 0], spawned |-> 0]

\* runtime.spawn of a task that will send one message of the kind
spawn(a, kind) ==
    [a EXCEPT !.tasks[kind] = @ + 1, !.spawned = @ + 1]

\* notifications.success / info / warning / error
notify(a) == [a EXCEPT !.notifications = Min(@ + 1, MaxNotes)]

load_triggers(a) ==
    IF a.active THEN spawn([a EXCEPT !.loading_triggers = TRUE], "TriggersFetched") ELSE a

load_routines(a) ==
    IF a.active THEN spawn([a EXCEPT !.loading_routines = TRUE], "RoutinesFetched") ELSE a

RECURSIVE SpawnTimes(_, _, _)
SpawnTimes(a, kind, n) == IF n = 0 THEN a ELSE SpawnTimes(spawn(a, kind), kind, n - 1)

load_er_diagram_data(a) ==
    LET cleared == [a EXCEPT !.er_loading = TRUE]
    IN IF a.active
       THEN IF a.n_tables = 0
            THEN notify([cleared EXCEPT !.er_loading = FALSE])
            ELSE spawn(SpawnTimes(notify(cleared), "ERTableColumnsFetched", a.n_tables),
                       "ForeignKeysFetched")
       ELSE notify([cleared EXCEPT !.er_loading = FALSE])

\* connect, select_database, execute and fetch_primary_key start one task each
connect(a, kind) == spawn([a EXCEPT !.connecting = TRUE, !.active = TRUE, !.n_tables = 0], kind)

select_database(a) == spawn([a EXCEPT !.connecting = TRUE], "DatabaseSelected")

execute(a) == spawn([a EXCEPT !.executing = TRUE], "QueryDone")

fetch_primary_key(a) == spawn(a, "PrimaryKeyFetched")

handle_connection_error(a) == notify(a)

\* the handlers; each ends with ctx.request_repaint()
handle_connected_with_tables(a, msg) ==
    LET a1 == [a EXCEPT !.connecting = FALSE]
    IN IF msg.ok
       THEN load_routines(load_triggers([notify(a1) EXCEPT !.n_tables = msg.tables]))
       ELSE handle_connection_error(a1)

handle_connected_with_databases(a, msg) ==
    LET a1 == [a EXCEPT !.connecting = FALSE]
    IN IF msg.ok THEN notify(a1) ELSE handle_connection_error(a1)

handle_database_selected(a, msg) ==
    LET a1 == [a EXCEPT !.connecting = FALSE]
    IN IF msg.ok
       THEN load_routines(load_triggers([notify(a1) EXCEPT !.n_tables = msg.tables]))
       ELSE notify(a1)

handle_query_done(a, msg) == notify([a EXCEPT !.executing = FALSE])

handle_primary_key_fetched(a, msg) == a

handle_triggers_fetched(a, msg) ==
    LET a1 == [a EXCEPT !.loading_triggers = FALSE]
    IN IF msg.ok THEN a1 ELSE notify(a1)

\* an error that says "not supported" (SQLite) is not shown: msg.detail
handle_routines_fetched(a, msg) ==
    LET a1 == [a EXCEPT !.loading_routines = FALSE]
    IN IF msg.ok \/ msg.detail THEN a1 ELSE notify(a1)

handle_foreign_keys_fetched(a, msg) == notify([a EXCEPT !.er_loading = FALSE])

\* a notification when the fetch failed or relationships were inferred: msg.detail
handle_er_table_columns_fetched(a, msg) ==
    IF ~msg.ok \/ msg.detail THEN notify(a) ELSE a

\* the match of handle_messages: the handler a message is given to
HandlerOf(msg) ==
    CASE msg.kind = "ConnectedWithTables"    -> "handle_connected_with_tables"
      [] msg.kind = "ConnectedWithDatabases" -> "handle_connected_with_databases"
      [] msg.kind = "DatabaseSelected"       -> "handle_database_selected"
      [] msg.kind = "QueryDone"              -> "handle_query_done"
      [] msg.kind = "PrimaryKeyFetched"      -> "handle_primary_key_fetched"
      [] msg.kind = "TriggersFetched"        -> "handle_triggers_fetched"
      [] msg.kind = "RoutinesFetched"        -> "handle_routines_fetched"
      [] msg.kind = "ForeignKeysFetched"     -> "handle_foreign_keys_fetched"
      [] msg.kind = "ERTableColumnsFetched"  -> "handle_er_table_columns_fetched"

RunHandler(h, a, msg) ==
    CASE h = "handle_connected_with_tables"    -> handle_connected_with_tables(a, msg)
      [] h = "handle_connected_with_databases" -> handle_connected_with_databases(a, msg)
      [] h = "handle_database_selected"        -> handle_database_selected(a, msg)
      [] h = "handle_query_done"               -> handle_query_done(a, msg)
      [] h = "handle_primary_key_fetched"      -> handle_primary_key_fetched(a, msg)
      [] h = "handle_triggers_fetched"         -> handle_triggers_fetched(a, msg)
      [] h = "handle_routines_fetched"         -> handle_routines_fetched(a, msg)
      [] h = "handle_foreign_keys_fetched"     -> handle_foreign_keys_fetched(a, msg)
      [] h = "handle_er_table_columns_fetched" -> handle_er_table_columns_fetched(a, msg)

\* rx.try_recv that takes the newest message
try_recv_Newest(ch) ==
    IF ch = <<>> THEN [ok |-> FALSE]
    ELSE [ok |-> TRUE, msg |-> Last(ch), rest |-> SubSeq(ch, 1, Len(ch) - 1)]

\* rx.try_recv(): the oldest message, or Err(Empty)
try_recv(ch) ==
    IF ch = <<>> THEN [ok |-> FALSE]
    ELSE [ok |-> TRUE, msg |-> Head(ch), rest |-> Tail(ch)]

\* the user's actions and the number of tasks each can start, the tasks
\* started by the handlers of their answers included
UserActions == {"none", "connect_sqlite", "connect_server", "select_database", "execute",
           "query_table", "toggle_er_diagram", "dismiss_all"}

TaskCost(a, act) ==
    CASE act \in {"connect_sqlite", "select_database"} -> 3
      [] act = "connect_server"    -> 1
      [] act = "execute"           -> 1
      [] act = "query_table"       -> 2
      [] act = "toggle_er_diagram" -> IF a.active /\ a.n_tables > 0 THEN a.n_tables + 1 ELSE 0
      [] OTHER                     -> 0

\* tasks that the handlers of the running tasks and of the waiting messages can still start
Reserved(a, ch) ==
    2 * (a.tasks["ConnectedWithTables"] + a.tasks["DatabaseSelected"]
         + Len(SelectSeq(ch, LAMBDA m : m.kind \in {"ConnectedWithTables", "DatabaseSelected"})))

UserAction(a, act) ==
    CASE act = "connect_sqlite"    -> connect(a, "ConnectedWithTables")
      [] act = "connect_server"    -> connect(a, "ConnectedWithDatabases")
      [] act = "select_database"   -> select_database(a)
      [] act = "execute"           -> execute(a)
      [] act = "query_table"       -> fetch_primary_key(execute(a))
      [] act = "toggle_er_diagram" -> notify(load_er_diagram_data(a))
      [] act = "dismiss_all"       -> [a EXCEPT !.notifications = 0]
      [] OTHER                     -> a

\* what the message of a task can carry: the Ok or Err of its result, the
\* number of tables of the database, and the detail its handler looks at
Payloads(kind) ==
    CASE kind \in {"ConnectedWithTables", "DatabaseSelected"} ->
            {[ok |-> TRUE, tables |-> n, detail |-> FALSE] : n \in 0..MaxTables}
                \cup {[ok |-> FALSE, tables |-> 0, detail |-> FALSE]}
      [] kind = "PrimaryKeyFetched" -> {[ok |-> TRUE, tables |-> 0, detail |-> FALSE]}
      [] kind = "RoutinesFetched" ->
            {[ok |-> TRUE, tables |-> 0, detail |-> FALSE]}
                \cup {[ok |-> FALSE, tables |-> 0, detail |-> d] : d \in BOOLEAN}
      [] kind = "ERTableColumnsFetched" ->
            {[ok |-> TRUE, tables |-> 0, detail |-> d] : d \in BOOLEAN}
                \cup {[ok |-> FALSE, tables |-> 0, detail |-> FALSE]}
      [] OTHER -> {[ok |-> b, tables |-> 0, detail |-> FALSE] : b \in BOOLEAN}

\* the application after DbManagerApp::new(), or with a connection made
\* earlier whose messages are all handled
AppsAtRest ==
    {App_new} \cup {[App_new EXCEPT !.active = TRUE, !.n_tables = n] : n \in 0..MaxTables}

InitAppState(a) ==
    /\ app = a
    /\ chan = <<>>
    /\ pc = "idle"
    /\ input = FALSE
    /\ repaint = FALSE
    /\ sent = 0
    /\ done = <<>>
    /\ snapshot = <<>>
    /\ handled = <<>>

\* eframe calls update() because a repaint was requested
FrameOnRepaint ==
    /\ pc = "idle"
    /\ repaint
    /\ pc' = "messages"
    /\ repaint' = FALSE
    /\ input' = FALSE
    /\ snapshot' = chan
    /\ handled' = <<>>
    /\ UNCHANGED <<app, chan, sent, done>>

\* eframe calls update() because of an input event of the user
FrameOnInput ==
    /\ pc = "idle"
    /\ pc' = "messages"
    /\ repaint' = FALSE
    /\ input' = TRUE
    /\ snapshot' = chan
    /\ handled' = <<>>
    /\ UNCHANGED <<app, chan, sent, done>>

\* handle_messages: one turn of the while loop that receives a message
HandleMessage ==
    /\ pc = "messages"
    /\ try_recv(chan).ok
    /\ LET r == try_recv(chan)
           h == HandlerOf(r.msg)
       IN /\ chan' = r.rest
          /\ app' = RunHandler(h, app, r.msg)
          /\ handled' = Append(handled, <<r.msg, h>>)
          /\ done' = Append(done, r.msg.seq)
    /\ repaint' = TRUE
    /\ UNCHANGED <<pc, input, sent, snapshot>>

\* handle_messages: try_recv fails and the function returns
HandleMessagesReturn ==
    /\ pc = "messages"
    /\ ~try_recv(chan).ok
    /\ pc' = "body"
    /\ UNCHANGED <<app, chan, input, repaint, sent, done, snapshot, handled>>

\* the rest of update(): the user's action, notifications.tick() dropping
\* the expired notifications, and the request to keep refreshing
UpdateBody(act) ==
    /\ pc = "body"
    /\ act # "none" => input
    /\ app.spawned + Reserved(app, chan) + TaskCost(app, act) <= MaxTasks
    /\ act \in {"select_database", "execute", "query_table"} => app.active
    /\ \E expired \in 0..app.notifications :
          LET a1 == UserAction(app, act)
              a2 == [a1 EXCEPT !.notifications = IF expired <= @ THEN @ - expired ELSE 0]
          IN /\ app' = a2
             /\ repaint' = (repaint \/ expired > 0
                              \/ a2.connecting \/ a2.executing \/ a2.notifications # 0)
    /\ pc' = "idle"
    /\ input' = FALSE
    /\ snapshot' = <<>>
    /\ handled' = <<>>
    /\ UNCHANGED <<chan, sent, done>>

\* a background task finishes and sends its message
TaskSend(kind, payload) ==
    /\ app.tasks[kind] > 0
    /\ app' = [app EXCEPT !.tasks[kind] = @ - 1]
    /\ chan' = Append(chan, [seq |-> sent + 1, kind |-> kind, ok |-> payload.ok,
                              tables |-> payload.tables, detail |-> payload.detail])
    /\ sent' = sent + 1
    /\ UNCHANGED <<pc, input, repaint, done, snapshot, handled>>

NextAppState ==
    \/ FrameOnRepaint
    \/ FrameOnInput
    \/ HandleMessage
    \/ HandleMessagesReturn
    \/ \E act \in UserActions : UpdateBody(act)
    \/ \E kind \in Kinds : \E payload \in Payloads(kind) : TaskSend(kind, payload)

(***************************************************************************)
(* The primary-key column of the displayed result                          *)
(***************************************************************************)
\* the tables of the connected database: their columns and their primary key
TableNames == {"a", "b", "c"}

ColumnsOf(t) ==
    CASE t = "a" -> <<"x", "id">>
      [] t = "b" -> <<"id", "x">>
      [] t = "c" -> <<"x">>

PrimaryKeyOf(t) == IF t = "c" THEN None ELSE Some("id")

\* result.columns.iter().position(|c| c == &name), counted from 0
Position(columns, name) ==
    IF \E i \in 1..Len(columns) : columns[i] = name
    THEN Some((CHOOSE i \in 1..Len(columns) :
                    /\ columns[i] = name
                    /\ \A j \in 1..(i - 1) : columns[j] # name) - 1)
    ELSE None

View_new ==
    [selected_table |-> None, result |-> None, primary_key_column |-> None,
     pending |-> {}, switches |-> 0]

\* handle_query_table / switch_table: select the table, forget the primary
\* key, start the query and the fetch of the primary key
handle_query_table(v, table, ok) ==
    LET n == v.switches + 1
    IN [v EXCEPT !.selected_table = Some(table),
                 !.primary_key_column = None,
                 !.pending = @ \cup
                     {[kind |-> "QueryDone", id |-> n, table |-> table,
                       columns |-> IF ok THEN ColumnsOf(table) ELSE <<>>],
                      [kind |-> "PrimaryKeyFetched", id |-> n, table |-> table,
                       columns |-> <<>>]},
                 !.switches = n]

\* handle_query_done: the result shown becomes the one of the message
\* (QueryResult::default(), without columns, for an Err)
handle_query_done_result(v, msg) ==
    [v EXCEPT !.result = Some(msg.columns), !.pending = @ \ {msg}]

handle_primary_key_fetched_index(v, msg) ==
    LET table_name == msg.table
        pk_column == PrimaryKeyOf(msg.table)
        v1 == [v EXCEPT !.pending = @ \ {msg}]
    IN IF v.selected_table = Some(table_name)
       THEN IF pk_column # None
            THEN IF v.result # None /\ Position(Unwrap(v.result), Unwrap(pk_column)) # None
                 THEN [v1 EXCEPT !.primary_key_column =
                                    Position(Unwrap(v.result), Unwrap(pk_column))]
                 ELSE v1
            ELSE [v1 EXCEPT !.primary_key_column = None]
       ELSE v1

QueryTable(table, ok) ==
    /\ view.switches < MaxSwitches
    /\ view' = handle_query_table(view, table, ok)

HandleQueryDone(msg) ==
    /\ msg \in view.pending
    /\ msg.kind = "QueryDone"
    /\ view' = handle_query_done_result(view, msg)

HandlePrimaryKeyFetched(msg) ==
    /\ msg \in view.pending
    /\ msg.kind = "PrimaryKeyFetched"
    /\ view' = handle_primary_key_fetched_index(view, msg)

NextViewState ==
    \/ \E table \in TableNames, ok \in BOOLEAN : QueryTable(table, ok)
    \/ \E msg \in view.pending : HandleQueryDone(msg)
    \/ \E msg \in view.pending : HandlePrimaryKeyFetched(msg)

(***************************************************************************)
(* The filter conditions of the grid and the filter cache                  *)
(***************************************************************************)
\* the columns of the result shown
FilterColumns == <<"x", "y">>

\* ColumnFilter::new(column)
ColumnFilter_new(column) == [column |-> column, enabled |-> TRUE]

\* DataGridState::new(): no filter; the frame is about to read the keyboard.
\* stale is history: the list was modified and invalidate() not called since
Filt_new ==
    [filters |-> <<>>, cache_valid |-> FALSE, stale |-> FALSE, at |-> "keys"]

\* filter_cache.invalidate()
invalidate(f) == [f EXCEPT !.cache_valid = FALSE, !.stale = FALSE]

\* a modification of grid_state.filters
SetFilters(f, filters) ==
    [f EXCEPT !.filters = filters, !.stale = @ \/ filters # f.filters]

RemoveAt(q, idx) == SubSeq(q, 1, idx - 1) \o SubSeq(q, idx + 1, Len(q))

\* handle_keyboard_shortcuts: Ctrl+F adds a filter on the first column,
\* Ctrl+Shift+F clears the list
handle_keyboard_shortcuts_filters(f, key) ==
    CASE key = "ctrl_f"       -> SetFilters(f, Append(f.filters, ColumnFilter_new(FilterColumns[1])))
      [] key = "ctrl_shift_f" -> SetFilters(f, <<>>)
      [] OTHER                -> f

\* FilterPanel::show: the new list and whether the panel reports a change
FilterPanel_show(filters, op, idx) ==
    CASE op = "add" ->
            [filters |-> Append(filters, ColumnFilter_new(FilterColumns[1])), changed |-> TRUE]
      [] op = "clear" /\ filters # <<>> ->
            [filters |-> <<>>, changed |-> TRUE]
      [] op = "toggle" /\ idx \in 1..Len(filters) ->
            [filters |-> [filters EXCEPT ![idx].enabled = ~@], changed |-> TRUE]
      [] op = "column" /\ idx \in 1..Len(filters) /\ filters[idx].column # FilterColumns[2] ->
            [filters |-> [filters EXCEPT ![idx].column = FilterColumns[2]], changed |-> TRUE]
      [] op = "remove" /\ idx \in 1..Len(filters) ->
            [filters |-> RemoveAt(filters, idx), changed |-> TRUE]
      [] OTHER -> [filters |-> filters, changed |-> FALSE]

\* update(): the sidebar is shown and the cache invalidated if it reports a change
show_sidebar_filters(f, op, idx) ==
    LET r == FilterPanel_show(f.filters, op, idx)
        f1 == SetFilters(f, r.filters)
    IN IF r.changed THEN invalidate(f1) ELSE f1

\* show_filter_bar: nothing for an empty list; the list is cleared on a click;
\* a change is reported when the length differs
show_filter_bar(filters, click) ==
    IF filters = <<>> THEN [filters |-> filters, changed |-> FALSE]
    ELSE LET after == IF click THEN <<>> ELSE filters
         IN [filters |-> after, changed |-> Len(after) # Len(filters)]

\* show_editable, up to the call of filter_rows_cached
show_editable_filter_bar(f, click) ==
    LET r == show_filter_bar(f.filters, click)
        f1 == SetFilters(f, r.filters)
    IN IF r.changed THEN invalidate(f1) ELSE f1

\* filter_rows_cached: the cached rows are used if the cache is valid,
\* otherwise the rows are filtered again and the cache becomes valid
filter_rows_cached(f) == [f EXCEPT !.cache_valid = TRUE]

\* show_editable, after the table: a click on a column header adds a filter
\* for the column unless one exists
show_editable_column_click(f, col_name) ==
    IF \E i \in 1..Len(f.filters) : f.filters[i].column = col_name
    THEN f
    ELSE SetFilters(f, Append(f.filters, ColumnFilter_new(col_name)))

FilterKeys(key) ==
    /\ filt.at = "keys"
    /\ key = "ctrl_f" => Len(filt.filters) < MaxFilters
    /\ filt' = [handle_keyboard_shortcuts_filters(filt, key) EXCEPT !.at = "sidebar"]

FilterSidebar(op, idx) ==
    /\ filt.at = "sidebar"
    /\ op = "add" => Len(filt.filters) < MaxFilters
    /\ filt' = [show_sidebar_filters(filt, op, idx) EXCEPT !.at = "bar"]

FilterBar(click) ==
    /\ filt.at = "bar"
    /\ filt' = [show_editable_filter_bar(filt, click) EXCEPT !.at = "rows"]

FilterRows ==
    /\ filt.at = "rows"
    /\ filt' = [filter_rows_cached(filt) EXCEPT !.at = "click"]

FilterColumnClick(col_name) ==
    /\ filt.at = "click"
    /\ Len(filt.filters) < MaxFilters
    /\ filt' = [show_editable_column_click(filt, col_name) EXCEPT !.at = "keys"]

FilterNoColumnClick ==
    /\ filt.at = "click"
    /\ filt' = [filt EXCEPT !.at = "keys"]

NextFiltState ==
    \/ \E key \in {"none", "ctrl_f", "ctrl_shift_f"} : FilterKeys(key)
    \/ \E op \in {"none", "add", "clear", "toggle", "column", "remove"} :
           \E idx \in 1..MaxFilters : FilterSidebar(op, idx)
    \/ \E click \in BOOLEAN : FilterBar(click)
    \/ FilterRows
    \/ \E col_name \in Range(FilterColumns) : FilterColumnClick(col_name)
    \/ FilterNoColumnClick

(***************************************************************************)
(* QueryTab and QueryTabManager                                            *)
(*                                                                         *)
(* A title is a sequence of pieces: the prefix of the numbered query tabs  *)
(* is one piece, every other character is a piece of its own.  An SQL text *)
(* is the sequence of its words.  Indexes count from 0 as in the code.     *)
(***************************************************************************)
\* the prefix of the numbered titles (U+67E5 U+8BE2 and a space: 7 bytes)
QueryPrefix == "Query "

DigitChars == <<"0", "1", "2", "3", "4", "5", "6", "7", "8", "9">>

\* format!("{}", n)
RECURSIVE ToDigits(_)
ToDigits(n) ==
    IF n < 10 THEN <<DigitChars[n + 1]>>
    ELSE Append(ToDigits(n \div 10), DigitChars[(n % 10) + 1])

DigitValue(ch) == (CHOOSE i \in 1..10 : DigitChars[i] = ch) - 1

RECURSIVE DigitsValue(_)
DigitsValue(chars) ==
    IF chars = <<>> THEN 0
    ELSE 10 * DigitsValue(SubSeq(chars, 1, Len(chars) - 1)) + DigitValue(Last(chars))

\* str::parse::<usize>().ok(): decimal digits after an optional '+'
ParseUsize(chars) ==
    LET body == IF chars # <<>> /\ chars[1] = "+" THEN Tail(chars) ELSE chars
    IN IF body # <<>> /\ \A i \in 1..Len(body) : body[i] \in Range(DigitChars)
       THEN Some(DigitsValue(body))
       ELSE None

\* the SQL texts and the table names given to the manager
SqlTexts == {<<"SELECT", "*", "FROM", "2">>, <<"UPDATE", "t">>}

TabTables == {"t", "u"}

SqlForTable(table_name) == <<"SELECT", "*", "FROM", table_name>>

\* QueryTab::extract_title
extract_title(sql) ==
    LET froms == {i \in 1..Len(sql) : sql[i] = "FROM"}
        from_pos == CHOOSE i \in froms : \A j \in froms : i <= j
        table_name == IF from_pos < Len(sql) THEN sql[from_pos + 1] ELSE ""
    IN IF froms # {} /\ table_name # ""
       THEN <<QueryPrefix, table_name>>
       ELSE IF sql # <<>> /\ sql[1] \in {"SELECT", "INSERT", "UPDATE", "DELETE",
                                         "CREATE", "ALTER", "DROP"}
            THEN <<sql[1], " ", IF sql[1] = "SELECT" THEN "query" ELSE "operation">>
            ELSE <<"New query">>

\* QueryTab::new(); history: numbered, the title is a number given by new_tab;
\* left, the editor text when the tab bar last switched away from the tab;
\* produced, the result of the last successful query handled in the tab
QueryTab_new ==
    [title |-> <<"New query">>, sql |-> <<>>, result |-> None, modified |-> FALSE,
     table_name |-> None, numbered |-> FALSE, left |-> None, produced |-> None]

from_sql(sql) ==
    [QueryTab_new EXCEPT !.sql = sql, !.title = extract_title(sql), !.modified = TRUE]

from_table(table_name, sql) ==
    [QueryTab_new EXCEPT !.sql = sql, !.title = <<table_name>>,
                         !.table_name = Some(table_name)]

update_title(tab) ==
    IF tab.table_name = None
    THEN [tab EXCEPT !.title = extract_title(tab.sql), !.numbered = FALSE]
    ELSE tab

\* the numbers of the titles QueryPrefix N, in the order of the tabs
RECURSIVE used_numbers(_)
used_numbers(tabseq) ==
    IF tabseq = <<>> THEN <<>>
    ELSE LET title == Head(tabseq).title
             parsed == IF title # <<>> /\ title[1] = QueryPrefix
                       THEN ParseUsize(Tail(title)) ELSE None
         IN (IF parsed # None THEN <<Unwrap(parsed)>> ELSE <<>>) \o used_numbers(Tail(tabseq))

RECURSIVE Insert(_, _)
Insert(sorted, x) ==
    IF sorted = <<>> THEN <<x>>
    ELSE IF x <= Head(sorted) THEN <<x>> \o sorted
         ELSE <<Head(sorted)>> \o Insert(Tail(sorted), x)

RECURSIVE Sort(_)
Sort(q) == IF q = <<>> THEN <<>> ELSE Insert(Sort(Tail(q)), Head(q))

\* the loop of find_next_number over the sorted numbers
RECURSIVE FirstUnused(_, _)
FirstUnused(nums, next) ==
    IF nums = <<>> THEN next
    ELSE IF Head(nums) = next THEN FirstUnused(Tail(nums), next + 1)
         ELSE IF Head(nums) > next THEN next
              ELSE FirstUnused(Tail(nums), next)

\* find_next_number that counts the tabs
find_next_number_Count(m) == Len(m.tabs) + 1

find_next_number(m) == FirstUnused(Sort(used_numbers(m.tabs)), 1)

get_active(m) ==
    IF m.active_index < Len(m.tabs) THEN Some(m.tabs[m.active_index + 1]) ELSE None

\* new_tab with > for >=
new_tab_OffByOne(m) ==
    IF Len(m.tabs) > m.max_tabs
    THEN [m |-> m, ret |-> m.active_index]
    ELSE LET tab == [QueryTab_new EXCEPT !.title = <<QueryPrefix>> \o ToDigits(find_next_number(m)),
                                         !.numbered = TRUE]
         IN [m |-> [m EXCEPT !.tabs = Append(@, tab), !.active_index = Len(m.tabs)],
             ret |-> Len(m.tabs)]

new_tab(m) ==
    IF Len(m.tabs) >= m.max_tabs
    THEN [m |-> m, ret |-> m.active_index]
    ELSE LET tab == [QueryTab_new EXCEPT !.title = <<QueryPrefix>> \o ToDigits(find_next_number(m)),
                                         !.numbered = TRUE]
         IN [m |-> [m EXCEPT !.tabs = Append(@, tab), !.active_index = Len(m.tabs)],
             ret |-> Len(m.tabs)]

new_tab_with_sql(m, sql) ==
    IF Len(m.tabs) >= m.max_tabs
    THEN [m |-> IF get_active(m) # None
                THEN [m EXCEPT !.tabs[m.active_index + 1] = update_title([@ EXCEPT !.sql = sql])]
                ELSE m,
          ret |-> m.active_index]
    ELSE [m |-> [m EXCEPT !.tabs = Append(@, from_sql(sql)), !.active_index = Len(m.tabs)],
          ret |-> Len(m.tabs)]

\* new_tab_for_table that does not look for an existing tab
new_tab_for_table_NoLookup(m, table_name, sql) ==
    IF Len(m.tabs) >= m.max_tabs
    THEN [m |-> IF get_active(m) # None
                THEN [m EXCEPT !.tabs[m.active_index + 1] =
                          [@ EXCEPT !.sql = sql, !.table_name = Some(table_name),
                                    !.title = <<table_name>>, !.numbered = FALSE]]
                ELSE m,
          ret |-> m.active_index]
    ELSE [m |-> [m EXCEPT !.tabs = Append(@, from_table(table_name, sql)),
                          !.active_index = Len(m.tabs)],
          ret |-> Len(m.tabs)]

new_tab_for_table(m, table_name, sql) ==
    LET found == {i \in 1..Len(m.tabs) : m.tabs[i].table_name = Some(table_name)}
        idx == (CHOOSE i \in found : \A j \in found : i <= j) - 1
    IN IF found # {}
       THEN [m |-> [m EXCEPT !.active_index = idx], ret |-> idx]
       ELSE IF Len(m.tabs) >= m.max_tabs
            THEN [m |-> IF get_active(m) # None
                        THEN [m EXCEPT !.tabs[m.active_index + 1] =
                                  [@ EXCEPT !.sql = sql, !.table_name = Some(table_name),
                                            !.title = <<table_name>>, !.numbered = FALSE]]
                        ELSE m,
                  ret |-> m.active_index]
            ELSE [m |-> [m EXCEPT !.tabs = Append(@, from_table(table_name, sql)),
                                  !.active_index = Len(m.tabs)],
                  ret |-> Len(m.tabs)]

close_tab(m, index) ==
    IF Len(m.tabs) <= 1 THEN m
    ELSE IF index < Len(m.tabs)
         THEN LET rest == RemoveAt(m.tabs, index + 1)
              IN [m EXCEPT !.tabs = rest,
                           !.active_index =
                               IF m.active_index >= Len(rest) THEN Len(rest) - 1
                               ELSE IF m.active_index > index THEN m.active_index - 1
                                    ELSE m.active_index]
         ELSE m

close_active_tab(m) == close_tab(m, m.active_index)

close_other_tabs(m) ==
    IF get_active(m) # None
    THEN [m EXCEPT !.tabs = <<Unwrap(get_active(m))>>, !.active_index = 0]
    ELSE m

close_tabs_to_right(m) ==
    IF m.active_index < Len(m.tabs) - 1
    THEN [m EXCEPT !.tabs = SubSeq(@, 1, m.active_index + 1)]
    ELSE m

set_active(m, index) ==
    IF index < Len(m.tabs) THEN [m EXCEPT !.active_index = index] ELSE m

next_tab(m) ==
    IF m.tabs # <<>> THEN [m EXCEPT !.active_index = (@ + 1) % Len(m.tabs)] ELSE m

prev_tab(m) ==
    IF m.tabs # <<>>
    THEN [m EXCEPT !.active_index = IF @ = 0 THEN Len(m.tabs) - 1 ELSE @ - 1]
    ELSE m

\* QueryTabManager::new(): one tab, made by new_tab
QueryTabManager_new ==
    new_tab([tabs |-> <<>>, active_index |-> 0, max_tabs |-> MaxTabs]).m

\* DbManagerApp::new(): the manager, the editor text and the result shown;
\* op and ret are history: the operation performed last and what it returned
Tabs_new ==
    [mgr |-> QueryTabManager_new, sql |-> <<>>, result |-> None,
     op |-> "new", ret |-> 0]

TabCreate(name, r) ==
    tabs' = [tabs EXCEPT !.mgr = r.m, !.op = name, !.ret = r.ret]

TabChange(name, m) ==
    tabs' = [tabs EXCEPT !.mgr = m, !.op = name, !.ret = 0]

NextTabsState ==
    \/ TabCreate("new_tab", new_tab(tabs.mgr))
    \/ \E sql \in SqlTexts : TabCreate("new_tab_with_sql", new_tab_with_sql(tabs.mgr, sql))
    \/ \E t \in TabTables :
           TabCreate("new_tab_for_table", new_tab_for_table(tabs.mgr, t, SqlForTable(t)))
    \/ \E index \in 0..MaxTabs : TabChange("close_tab", close_tab(tabs.mgr, index))
    \/ TabChange("close_tab", close_active_tab(tabs.mgr))
    \/ TabChange("close", close_other_tabs(tabs.mgr))
    \/ TabChange("close", close_tabs_to_right(tabs.mgr))
    \/ \E index \in 0..MaxTabs : TabChange("switch", set_active(tabs.mgr, index))
    \/ TabChange("switch", next_tab(tabs.mgr))
    \/ TabChange("switch", prev_tab(tabs.mgr))

(***************************************************************************)
(* The SQL editor of the application and the query tabs                    *)
(***************************************************************************)
EditorTexts == {<<>>, <<"SELECT", "1">>}

QueryResults == {"r1", "r2"}

\* QueryResult::default()
QueryResult_default == "empty"

\* the editor widget edits self.sql
edit_sql(a, text) == [a EXCEPT !.sql = text, !.op = "edit"]

\* self.sql and self.result are taken from the active tab
load_active_tab(a) ==
    IF get_active(a.mgr) # None
    THEN [a EXCEPT !.sql = Unwrap(get_active(a.mgr)).sql,
                   !.result = Unwrap(get_active(a.mgr)).result]
    ELSE a

\* handle_tab_actions, switch_to = Some(idx)
handle_tab_actions_switch_to(a, idx) ==
    LET from == a.mgr.active_index + 1
        left == [a EXCEPT !.mgr.tabs[from].left = Some(a.sql)]
    IN [load_active_tab([left EXCEPT !.mgr = set_active(@, idx)]) EXCEPT !.op = "switch_to"]

\* handle_tab_actions, new_tab
handle_tab_actions_new_tab(a) ==
    [a EXCEPT !.mgr = new_tab(@).m, !.op = "tab_bar_new"]

\* handle_tab_actions, close_tab = Some(idx)
handle_tab_actions_close_tab(a, idx) ==
    [load_active_tab([a EXCEPT !.mgr = close_tab(@, idx)]) EXCEPT !.op = "tab_bar_close"]

\* handle_query_done: the result is shown, and stored in the active tab if Ok
handle_query_done_tab(a, ok, res) ==
    IF ok
    THEN [a EXCEPT !.result = Some(res),
                   !.mgr.tabs[a.mgr.active_index + 1].result = Some(res),
                   !.mgr.tabs[a.mgr.active_index + 1].produced = Some(res),
                   !.op = "query_done"]
    ELSE [a EXCEPT !.result = Some(QueryResult_default), !.op = "query_done"]

NextEditorState ==
    \/ \E text \in EditorTexts : tabs' = edit_sql(tabs, text)
    \/ \E idx \in 0..(Len(tabs.mgr.tabs) - 1) :
           /\ idx # tabs.mgr.active_index
           /\ tabs' = handle_tab_actions_switch_to(tabs, idx)
    \/ tabs' = handle_tab_actions_new_tab(tabs)
    \/ \E idx \in 0..(Len(tabs.mgr.tabs) - 1) : tabs' = handle_tab_actions_close_tab(tabs, idx)
    \/ \E ok \in BOOLEAN, res \in QueryResults : tabs' = handle_query_done_tab(tabs, ok, res)

(***************************************************************************)
(* Keyboard focus: FocusArea, the keyboard handlers of the toolbar and of   *)
(* the query-tab bar, and the part of DbManagerApp::update that calls them  *)
(* and the data grid in one frame.  `focus` records the focus area, the     *)
(* toolbar's selected item, the grid's focused flag, the key pressed in the *)
(* last frame and the areas whose keyboard handler ran on that key.         *)
(***************************************************************************)
FocusAreas == {"Sidebar", "DataGrid", "SqlEditor", "Dialog", "Toolbar", "QueryTabs"}

Keys == {"H", "L", "J", "K", "Enter", "Escape", "D"}

TOOLBAR_ITEMS == 7

GridTransfers == {"ToSidebar", "ToSqlEditor", "ToQueryTabs"}

Focus_new ==
    [focus_area |-> "DataGrid", toolbar_index |-> 0, grid_focused |-> TRUE,
     key |-> "", handled |-> {}]

\* Toolbar::handle_keyboard: h/l move the selection, j and Escape hand the
\* focus to the tab bar; the key is read, not consumed.
Toolbar_handle_keyboard(key, toolbar_index) ==
    [toolbar_index |->
         IF key = "H" /\ toolbar_index > 0 THEN toolbar_index - 1
         ELSE IF key = "L" /\ toolbar_index < TOOLBAR_ITEMS - 1 THEN toolbar_index + 1
         ELSE toolbar_index,
     focus_transfer |->
         IF key \in {"J", "Escape"} THEN Some("ToQueryTabs") ELSE None]

\* QueryTabBar::handle_keyboard: the focus transfer it requests (the later
\* assignment wins); nothing with no tab.  The key is read, not consumed.
QueryTabBar_handle_keyboard(key, tab_count) ==
    IF tab_count = 0 THEN None
    ELSE IF key \in {"Enter", "Escape"} THEN Some("ToDataGrid")
    ELSE IF key = "K" THEN Some("ToToolbar")
    ELSE IF key = "J" THEN Some("ToDataGrid")
    ELSE None

\* update, the toolbar part: the handler runs when the focus is on the
\* toolbar, and a requested transfer moves the focus at once.
update_toolbar(f, key) ==
    IF f.focus_area = "Toolbar"
    THEN LET r == Toolbar_handle_keyboard(key, f.toolbar_index)
         IN  [f EXCEPT !.toolbar_index = r.toolbar_index,
                       !.handled = @ \cup {"Toolbar"},
                       !.focus_area = IF r.focus_transfer = Some("ToQueryTabs")
                                      THEN "QueryTabs" ELSE @]
    ELSE f

\* update, the tab-bar part: the focus area is read again after the toolbar
\* part of the same frame.
update_query_tabs(f, key, tab_count) ==
    IF f.focus_area = "QueryTabs"
    THEN LET t == QueryTabBar_handle_keyboard(key, tab_count)
             g == [f EXCEPT !.handled = @ \cup {"QueryTabs"}]
         IN  IF t = Some("ToToolbar") THEN [g EXCEPT !.focus_area = "Toolbar"]
             ELSE IF t = Some("ToDataGrid")
                  THEN [g EXCEPT !.focus_area = "DataGrid", !.grid_focused = TRUE]
             ELSE g
    ELSE f

\* update, the data-grid part: the grid takes the keyboard when the focus
\* area is the grid now; `transfer` is the focus transfer its handler asks
\* for and `request_focus` a click on the grid.
update_data_grid(f, transfer, request_focus) ==
    LET focused == f.focus_area = "DataGrid"
        g == [f EXCEPT !.grid_focused = focused,
                       !.handled = IF focused THEN @ \cup {"DataGrid"} ELSE @]
        h == IF focused /\ transfer = Some("ToSidebar")
                 THEN [g EXCEPT !.focus_area = "Sidebar", !.grid_focused = FALSE]
             ELSE IF focused /\ transfer = Some("ToSqlEditor")
                 THEN [g EXCEPT !.focus_area = "SqlEditor", !.grid_focused = FALSE]
             ELSE IF focused /\ transfer = Some("ToQueryTabs")
                 THEN [g EXCEPT !.focus_area = "QueryTabs", !.grid_focused = FALSE]
             ELSE g
    IN  IF request_focus /\ h.focus_area # "DataGrid"
        THEN [h EXCEPT !.focus_area = "DataGrid", !.grid_focused = TRUE]
        ELSE h

\* One frame of update with `key` pressed.
update_focus(f, key, tab_count, transfer, request_focus) ==
    update_data_grid(
        update_query_tabs(
            update_toolbar([f EXCEPT !.key = key, !.handled = {}], key),
            key, tab_count),
        transfer, request_focus)

NextFocusState ==
    \E key \in Keys, tab_count \in 1..MaxTabs,
       transfer \in {None} \cup {Some(t) : t \in GridTransfers},
       request_focus \in BOOLEAN :
        focus' = update_focus(focus, key, tab_count, transfer, request_focus)

(***************************************************************************)
(* ER diagram: load_er_diagram_data, the handlers of ERTableColumnsFetched  *)
(* and ForeignKeysFetched and infer_relationships_from_columns.  Names are  *)
(* sequences of lower-case characters, so that the suffix and prefix tests  *)
(* of the inference are computed.  `er` holds er_diagram_state (tables,     *)
(* relationships, loading), the background tasks of the load that have not  *)
(* been answered (pending) and the foreign keys of the last                 *)
(* ForeignKeysFetched that was handled (fetched).                           *)
(***************************************************************************)
OrdersTable == <<"o">>

UsersTable == <<"u", "s">>

IdColumn == <<"i", "d">>

UserIdColumn == <<"u", "_", "i", "d">>

OrderIdColumn == <<"o", "i", "d">>

\* The table lists (conn.tables) the active connection can have.
ConnTables ==
    { <<>>, <<OrdersTable>>, <<UsersTable>>,
      <<OrdersTable, UsersTable>>, <<UsersTable, OrdersTable>> }

\* What get_table_columns answers for a table: name and is_primary_key.
ColumnInfoOf(table) ==
    IF table = OrdersTable
    THEN << [name |-> IdColumn, is_primary_key |-> TRUE],
            [name |-> UserIdColumn, is_primary_key |-> FALSE] >>
    ELSE << [name |-> IdColumn, is_primary_key |-> TRUE],
            [name |-> OrderIdColumn, is_primary_key |-> FALSE] >>

\* What get_foreign_keys can answer.
UserOfOrder ==
    [from_table |-> OrdersTable, from_column |-> UserIdColumn,
     to_table |-> UsersTable, to_column |-> IdColumn]

LastOrderOfUser ==
    [from_table |-> UsersTable, from_column |-> OrderIdColumn,
     to_table |-> OrdersTable, to_column |-> IdColumn]

ForeignKeyLists == {<<>>, <<UserOfOrder>>, <<UserOfOrder, LastOrderOfUser>>}

ERTable_new(name) == [name |-> name, columns |-> <<>>]

Er_new ==
    [tables |-> <<>>, relationships |-> <<>>, loading |-> FALSE,
     pending |-> {}, fetched |-> None]

ends_with(s, suffix) ==
    Len(suffix) <= Len(s) /\ SubSeq(s, Len(s) - Len(suffix) + 1, Len(s)) = suffix

starts_with(s, prefix) ==
    Len(prefix) <= Len(s) /\ SubSeq(s, 1, Len(prefix)) = prefix

RECURSIVE trim_end_matches(_, _)
trim_end_matches(s, suffix) ==
    IF suffix # <<>> /\ ends_with(s, suffix)
    THEN trim_end_matches(SubSeq(s, 1, Len(s) - Len(suffix)), suffix)
    ELSE s

\* The table name a column name may refer to: xxx of xxx_id or xxxid.
potential_ref(col_name) ==
    IF ends_with(col_name, <<"_", "i", "d">>)
    THEN Some(trim_end_matches(col_name, <<"_", "i", "d">>))
    ELSE IF ends_with(col_name, <<"i", "d">>) /\ Len(col_name) > 2
    THEN Some(trim_end_matches(col_name, <<"i", "d">>))
    ELSE None

ref_matches(target, ref_name) ==
    \/ target = ref_name
    \/ target = ref_name \o <<"s">>
    \/ target = ref_name \o <<"_", "i", "n", "f", "o">>
    \/ starts_with(target, ref_name \o <<"_">>)

\* The relationships inferred for one column of a table: the first other
\* table whose name matches.
infer_column(tables, table, col) ==
    LET ref == potential_ref(col.name)
        hits == {i \in 1..Len(tables) :
                    /\ tables[i].name # table.name
                    /\ ref # None
                    /\ ref_matches(tables[i].name, Unwrap(ref))}
    IN  IF col.is_primary_key \/ hits = {} THEN <<>>
        ELSE LET i == CHOOSE h \in hits : \A k \in hits : h <= k
             IN  << [from_table |-> table.name, from_column |-> col.name,
                     to_table |-> tables[i].name, to_column |-> IdColumn] >>

infer_relationships_from_columns(tables) ==
    Concat([t \in 1..Len(tables) |->
        Concat([c \in 1..Len(tables[t].columns) |->
            infer_column(tables, tables[t], tables[t].columns[c])])])

\* load_er_diagram_data: conn is the active connection's table list, or
\* None without a connection.
load_er_diagram_data_state(e, conn) ==
    LET cleared == [e EXCEPT !.tables = <<>>, !.relationships = <<>>,
                             !.loading = TRUE, !.fetched = None]
    IN  IF conn = None \/ Unwrap(conn) = <<>>
        THEN [cleared EXCEPT !.loading = FALSE]
        ELSE [cleared EXCEPT
                 !.tables = [i \in 1..Len(Unwrap(conn)) |-> ERTable_new(Unwrap(conn)[i])],
                 !.pending = {<<"ERTableColumnsFetched", t>> : t \in Range(Unwrap(conn))}
                                 \cup {<<"ForeignKeysFetched">>}]

\* The index of the first element of a sequence that satisfies a test
\* (iter_mut().find), 0 when none does.
FirstTable(tables, name) ==
    LET hits == {i \in 1..Len(tables) : tables[i].name = name}
    IN  IF hits = {} THEN 0 ELSE CHOOSE h \in hits : \A k \in hits : h <= k

FirstColumn(columns, name) ==
    LET hits == {i \in 1..Len(columns) : columns[i].name = name}
    IN  IF hits = {} THEN 0 ELSE CHOOSE h \in hits : \A k \in hits : h <= k

\* The foreign-key marking loop of handle_foreign_keys_fetched.
RECURSIVE mark_foreign_keys(_, _)
mark_foreign_keys(tables, fks) ==
    IF fks = <<>> THEN tables
    ELSE LET fk == Head(fks)
             t == FirstTable(tables, fk.from_table)
             c == IF t = 0 THEN 0 ELSE FirstColumn(tables[t].columns, fk.from_column)
             marked == IF c = 0 THEN tables
                       ELSE [tables EXCEPT ![t].columns[c].is_foreign_key = TRUE]
         IN  mark_foreign_keys(marked, Tail(fks))

handle_foreign_keys_fetched_state(e, result) ==
    IF result.ok
    THEN LET tables == mark_foreign_keys(e.tables, result.fks)
             marked == [e EXCEPT !.tables = tables]
             relationships ==
                 IF result.fks = <<>> THEN infer_relationships_from_columns(tables)
                 ELSE result.fks
         IN  [marked EXCEPT !.relationships = relationships, !.loading = FALSE,
                            !.fetched = Some(result.fks)]
    ELSE [e EXCEPT !.loading = FALSE]

handle_er_table_columns_fetched_state(e, table_name, result) ==
    IF result.ok
    THEN LET t == FirstTable(e.tables, table_name)
             tables ==
                 IF t = 0 THEN e.tables
                 ELSE [e.tables EXCEPT ![t].columns =
                          [i \in 1..Len(result.columns) |->
                              [name |-> result.columns[i].name,
                               is_primary_key |-> result.columns[i].is_primary_key,
                               is_foreign_key |-> FALSE]]]
             all_loaded == \A i \in 1..Len(tables) : tables[i].columns # <<>>
             inferred == infer_relationships_from_columns(tables)
         IN  [e EXCEPT !.tables = tables,
                       !.relationships =
                           IF all_loaded /\ tables # <<>> /\ @ = <<>> /\ inferred # <<>>
                           THEN inferred ELSE @]
    ELSE e

\* The ER diagram is loaded; a load starts when no answer of an earlier one
\* is outstanding.
LoadErDiagram ==
    /\ er.pending = {}
    /\ \E conn \in {None} \cup {Some(tables) : tables \in ConnTables} :
           er' = load_er_diagram_data_state(er, conn)

\* A background task answers and its message is handled: tasks complete in
\* any order.
HandleErTableColumnsFetched ==
    \E m \in er.pending :
        /\ m[1] = "ERTableColumnsFetched"
        /\ \E result \in {[ok |-> TRUE, columns |-> ColumnInfoOf(m[2])],
                          [ok |-> FALSE, columns |-> <<>>]} :
               er' = [handle_er_table_columns_fetched_state(er, m[2], result)
                          EXCEPT !.pending = @ \ {m}]

HandleForeignKeysFetched ==
    /\ <<"ForeignKeysFetched">> \in er.pending
    /\ \E result \in {[ok |-> TRUE, fks |-> fks] : fks \in ForeignKeyLists}
                         \cup {[ok |-> FALSE, fks |-> <<>>]} :
           er' = [handle_foreign_keys_fetched_state(er, result)
                      EXCEPT !.pending = @ \ {<<"ForeignKeysFetched">>}]

NextErState ==
    \/ LoadErDiagram
    \/ HandleErTableColumnsFetched
    \/ HandleForeignKeysFetched

(***************************************************************************)
(* Sidebar lists: load_triggers / load_routines, the handlers of            *)
(* TriggersFetched / RoutinesFetched and SidebarPanelState's clear_ and     *)
(* set_ functions.  The two lists are handled by the same code, so the      *)
(* operators take the list as a parameter.  `side` holds the lists and the  *)
(* loading flags of sidebar_panel_state, the requests whose background task *)
(* has not been answered (pending), and for each list the most recent       *)
(* request and the answer it got.                                           *)
(***************************************************************************)
SidebarLists == {"triggers", "routines"}

Databases == {"db1", "db2"}

\* What get_triggers / get_routines answers for the database of a request:
\* the items of that database.
ItemsOf(list, db) == << <<list, db>> >>

Side_new ==
    [items |-> [l \in SidebarLists |-> <<>>],
     selected_index |-> [l \in SidebarLists |-> 0],
     loading |-> [l \in SidebarLists |-> FALSE],
     pending |-> {},
     latest |-> [l \in SidebarLists |-> None],
     answer |-> [l \in SidebarLists |-> None],
     requests |-> 0]

\* clear_triggers / clear_routines
clear_list(s, list) ==
    [s EXCEPT !.items[list] = <<>>, !.selected_index[list] = 0]

\* set_triggers / set_routines
set_list(s, list, items) ==
    [s EXCEPT !.items[list] = items, !.selected_index[list] = 0,
              !.loading[list] = FALSE]

\* load_triggers / load_routines with the active connection on database db:
\* the task keeps the configuration it was started with.
load_list(s, list, db) ==
    LET request == [id |-> s.requests + 1, list |-> list, db |-> db]
        cleared == clear_list([s EXCEPT !.loading[list] = TRUE], list)
    IN  [cleared EXCEPT !.pending = @ \cup {request},
                        !.latest[list] = Some(request),
                        !.answer[list] = None,
                        !.requests = @ + 1]

\* handle_triggers_fetched / handle_routines_fetched
handle_list_fetched(s, list, result) ==
    LET stopped == [s EXCEPT !.loading[list] = FALSE]
    IN  IF result.ok THEN set_list(stopped, list, result.items) ELSE stopped

\* The trigger or routine list is requested for the database that is
\* selected now.
LoadList ==
    /\ side.requests < MaxRequests
    /\ \E list \in SidebarLists, db \in Databases :
           side' = load_list(side, list, db)

\* A background task answers and its message is handled: tasks complete in
\* any order.
HandleListFetched ==
    \E request \in side.pending :
        \E result \in {[ok |-> TRUE, items |-> ItemsOf(request.list, request.db)],
                       [ok |-> FALSE, items |-> <<>>]} :
            side' = [handle_list_fetched(side, request.list, result) EXCEPT
                        !.pending = @ \ {request},
                        !.answer[request.list] =
                            IF Some(request) = side.latest[request.list]
                            THEN Some(result) ELSE @]

NextSideState ==
    \/ LoadList
    \/ HandleListFetched

(***************************************************************************)
(* The parts of the application that a specification leaves at rest        *)
(***************************************************************************)
RestAtRest ==
    /\ view = View_new
    /\ filt = Filt_new
    /\ tabs = Tabs_new
    /\ focus = Focus_new
    /\ er = Er_new
    /\ side = Side_new

(***************************************************************************)
(* The operations on one DataGridState                                     *)
(***************************************************************************)
Deltas == {<<-1, 0>>, <<1, 0>>, <<0, -1>>, <<0, 1>>, <<1, 1>>}

Dims == 0..MaxDim

AnchorCells == {<<0, 1>>, <<1, 0>>}

EditCell == <<0, 0>>

InitGridState ==
    /\ grid = DataGridState_new
    /\ last_op = "new"

MoveCursor(d, max_row, max_col) ==
    /\ last_op' = "move_cursor"
    /\ grid' = move_cursor(grid, d[1], d[2], max_row, max_col)

GotoLineStart ==
    /\ last_op' = "goto_line_start"
    /\ grid' = goto_line_start(grid)

GotoLineEnd(max_col) ==
    /\ last_op' = "goto_line_end"
    /\ grid' = goto_line_end(grid, max_col)

GotoFileStart ==
    /\ last_op' = "goto_file_start"
    /\ grid' = goto_file_start(grid)

GotoFileEnd(max_row) ==
    /\ last_op' = "goto_file_end"
    /\ grid' = goto_file_end(grid, max_row)

ClearEdits ==
    /\ last_op' = "clear_edits"
    /\ grid' = clear_edits(grid)

\* the writes to the public fields, as the tests and the key handling make them
SetCount(n) ==
    /\ last_op' = "set"
    /\ grid' = [grid EXCEPT !.count = Some(n)]

SetSelectAnchor(a) ==
    /\ last_op' = "set"
    /\ grid' = [grid EXCEPT !.select_anchor = a]

SetMode(m) ==
    /\ last_op' = "set"
    /\ grid' = [grid EXCEPT !.mode = m]

SetCommandBuffer ==
    /\ last_op' = "set"
    /\ grid' = [grid EXCEPT !.command_buffer = "g"]

StartEditing ==
    /\ last_op' = "set"
    /\ grid' = [grid EXCEPT !.editing_cell = Some(EditCell), !.edit_text = "v"]

ModifyCell ==
    /\ last_op' = "set"
    /\ grid' = [grid EXCEPT !.modified_cells =
                    {e \in @ : e[1] # EditCell} \cup {<<EditCell, "v">>}]

DeleteRow(r) ==
    /\ last_op' = "set"
    /\ Len(grid.rows_to_delete) < MaxEdits
    /\ grid' = [grid EXCEPT !.rows_to_delete = Append(@, r)]

\* the "+ row" button of the grid's tool bar: n_rows and n_cols are the size of the result
AddRow(n_rows, n_cols) ==
    /\ last_op' = "set"
    /\ Len(grid.new_rows) < MaxEdits
    /\ LET new_row     == [k \in 1..n_cols |-> ""]
           new_rows    == Append(grid.new_rows, new_row)
           new_row_idx == n_rows + Len(new_rows) - 1
       IN grid' = [grid EXCEPT !.new_rows = new_rows, !.cursor = <<new_row_idx, 0>>]

NextGridState ==
    \/ \E d \in Deltas, max_row \in Dims, max_col \in Dims : MoveCursor(d, max_row, max_col)
    \/ GotoLineStart
    \/ \E max_col \in Dims : GotoLineEnd(max_col)
    \/ GotoFileStart
    \/ \E max_row \in Dims : GotoFileEnd(max_row)
    \/ ClearEdits
    \/ \E n \in 0..MaxCount : SetCount(n)
    \/ \E a \in {None} \cup {Some(c) : c \in AnchorCells} : SetSelectAnchor(a)
    \/ \E m \in GridModes : SetMode(m)
    \/ SetCommandBuffer
    \/ StartEditing
    \/ ModifyCell
    \/ \E r \in 0..(MaxDim - 1) : DeleteRow(r)
    \/ \E n_rows \in 0..(MaxDim - 1) : AddRow(n_rows, 1)

InitGrid ==
    /\ RestAtRest
    /\ InitGridState
    /\ InitAppState(App_new)
    /\ content = <<>>
    /\ config = [strip_comments |-> TRUE, strip_empty_lines |-> TRUE]
    /\ preview = NoPreview

NextGrid == NextGridState /\ UNCHANGED sqlVars /\ UNCHANGED appVars /\ UNCHANGED restVars

SpecGrid == InitGrid /\ [][NextGrid]_vars

(***************************************************************************)
(* The import of one SQL file                                              *)
(***************************************************************************)
Texts == UNION {[1..n -> Alphabet] : n \in 0..MaxLen}

RECURSIVE Repeat(_, _)
Repeat(s, n) == IF n = 0 THEN <<>> ELSE s \o Repeat(s, n - 1)

Scripts == {Repeat(<<"a", ";">>, n) \o tail : n \in 0..MaxStmts, tail \in {<<>>, <<"a">>}}

Configs == [strip_comments : BOOLEAN, strip_empty_lines : BOOLEAN]

InitSql ==
    /\ RestAtRest
    /\ content \in Texts \cup Scripts
    /\ config \in Configs
    /\ preview = NoPreview
    /\ InitGridState
    /\ InitAppState(App_new)

ParseSqlFile ==
    /\ ~preview.called
    /\ preview' = parse_sql_file(content, config)
    /\ UNCHANGED <<content, config>>

NextSql == ParseSqlFile /\ UNCHANGED gridVars /\ UNCHANGED appVars /\ UNCHANGED restVars

SpecSql == InitSql /\ [][NextSql]_vars

InitApp ==
    /\ RestAtRest
    /\ \E a \in AppsAtRest : InitAppState(a)
    /\ InitGridState
    /\ content = <<>>
    /\ config = [strip_comments |-> TRUE, strip_empty_lines |-> TRUE]
    /\ preview = NoPreview

NextApp == NextAppState /\ UNCHANGED sqlVars /\ UNCHANGED gridVars /\ UNCHANGED restVars

SpecApp == InitApp /\ [][NextApp]_vars

\* the rest of the state when one of the parts below is exercised
OthersAtRest ==
    /\ InitGridState
    /\ InitAppState(App_new)
    /\ content = <<>>
    /\ config = [strip_comments |-> TRUE, strip_empty_lines |-> TRUE]
    /\ preview = NoPreview

othersVars == <<sqlVars, gridVars, appVars>>

InitView == OthersAtRest /\ RestAtRest

NextView == NextViewState /\ UNCHANGED othersVars /\ UNCHANGED <<filt, tabs, focus, er, side>>

SpecView == InitView /\ [][NextView]_vars

InitFilt == OthersAtRest /\ RestAtRest

NextFilt == NextFiltState /\ UNCHANGED othersVars /\ UNCHANGED <<view, tabs, focus, er, side>>

SpecFilt == InitFilt /\ [][NextFilt]_vars

InitTabs == OthersAtRest /\ RestAtRest

NextTabs == NextTabsState /\ UNCHANGED othersVars /\ UNCHANGED <<view, filt, focus, er, side>>

SpecTabs == InitTabs /\ [][NextTabs]_vars

InitEditor == OthersAtRest /\ RestAtRest

NextEditor == NextEditorState /\ UNCHANGED othersVars /\ UNCHANGED <<view, filt, focus, er, side>>

SpecEditor == InitEditor /\ [][NextEditor]_vars

InitFocus == OthersAtRest /\ RestAtRest

NextFocus == NextFocusState /\ UNCHANGED othersVars /\ UNCHANGED <<view, filt, tabs, er, side>>

SpecFocus == InitFocus /\ [][NextFocus]_vars

InitEr == OthersAtRest /\ RestAtRest

NextEr == NextErState /\ UNCHANGED othersVars /\ UNCHANGED <<view, filt, tabs, focus, side>>

SpecEr == InitEr /\ [][NextEr]_vars

InitSide == OthersAtRest /\ RestAtRest

NextSide == NextSideState /\ UNCHANGED othersVars /\ UNCHANGED <<view, filt, tabs, focus, er>>

SpecSide == InitSide /\ [][NextSide]_vars

(***************************************************************************)
(* The lexical classes of SQL text, position by position over the whole    *)
(* text: "str" inside a quoted literal (its quotes included, a doubled     *)
(* quote being an escape), "comment" inside a block comment or from a      *)
(* '--' or '#' marker to the end of its line, "code" elsewhere.            *)
(***************************************************************************)
RECURSIVE Lex(_, _, _, _)
Lex(c, i, mode, q) ==
    IF i > Len(c) THEN <<>>
    ELSE
      LET ch == c[i]
          nx == IF i + 1 <= Len(c) THEN c[i + 1] ELSE ""
      IN CASE mode = "code" ->
                IF ch \in {"'", "\""} THEN <<"str">> \o Lex(c, i + 1, "str", ch)
                ELSE IF ch = "/" /\ nx = "*" THEN <<"comment", "comment">> \o Lex(c, i + 2, "block", q)
                ELSE IF ch = "-" /\ nx = "-" THEN <<"comment", "comment">> \o Lex(c, i + 2, "line", q)
                ELSE IF ch = "#" THEN <<"comment">> \o Lex(c, i + 1, "line", q)
                ELSE <<"code">> \o Lex(c, i + 1, "code", q)
           [] mode = "str" ->
                IF ch = q /\ nx = q THEN <<"str", "str">> \o Lex(c, i + 2, "str", q)
                ELSE IF ch = q THEN <<"str">> \o Lex(c, i + 1, "code", q)
                ELSE <<"str">> \o Lex(c, i + 1, "str", q)
           [] mode = "block" ->
                IF ch = "*" /\ nx = "/" THEN <<"comment", "comment">> \o Lex(c, i + 2, "code", q)
                ELSE <<"comment">> \o Lex(c, i + 1, "block", q)
           [] mode = "line" ->
                IF ch = NL THEN <<"code">> \o Lex(c, i + 1, "code", q)
                ELSE <<"comment">> \o Lex(c, i + 1, "line", q)

LexClass(c) == Lex(c, 1, "code", "\"")

\* the statements that hold position p of the file text
HoldersOf(p) == {k \in 1..Len(preview.sql_statements) : p \in Range(preview.sql_statements[k])}

\* how often position p of the file text occurs in the emitted statements
Occurrences(p) ==
    LET all == Concat(preview.sql_statements)
    IN Cardinality({k \in 1..Len(all) : all[k] = p})

\* positions p and p + 1 stand next to each other in some emitted statement
AdjacentInOutput(p) ==
    \E k \in 1..Len(preview.sql_statements) :
        LET st == preview.sql_statements[k]
        IN \E j \in 1..(Len(st) - 1) : st[j] = p /\ st[j + 1] = p + 1

\* C1: parse_sql_file never ends a statement at a ';' inside a quoted
\* literal: every such ';' is kept inside exactly one emitted statement, and
\* every ';' at which a statement is ended lies outside literals and comments.
C1_SplitOnlyOutsideLiteralsAndComments ==
    preview.called =>
        LET cls == LexClass(content)
        IN /\ \A k \in 1..Len(preview.splits) : cls[preview.splits[k]] = "code"
           /\ \A p \in 1..Len(content) :
                 (content[p] = ";" /\ cls[p] = "str") => Occurrences(p) = 1

\* the part of C1 that the code meets: with strip_comments enabled the
\* statements are ended exactly at the ';' outside literals and comments
SplitsWhenStripping ==
    (preview.called /\ config.strip_comments) =>
        LET cls == LexClass(content)
        IN /\ Range(preview.splits) = {p \in 1..Len(content) : content[p] = ";" /\ cls[p] = "code"}
           /\ \A p \in 1..Len(content) :
                 (content[p] = ";" /\ cls[p] = "str") => Occurrences(p) = 1

\* with strip_comments enabled nothing of a comment is emitted
NoCommentTextWhenStripping ==
    (preview.called /\ config.strip_comments) =>
        \A p \in 1..Len(content) : LexClass(content)[p] = "comment" => Occurrences(p) = 0

\* with strip_comments enabled the text of a literal, comment markers
\* included, is emitted once and contiguously
LiteralsKeptWhenStripping ==
    (preview.called /\ config.strip_comments) =>
        LET cls == LexClass(content)
        IN \A p \in 1..Len(content) :
              (cls[p] = "str" /\ ~IsWhitespace(content[p])) =>
                  /\ Occurrences(p) = 1
                  /\ (p < Len(content) /\ cls[p + 1] = "str" /\ ~IsWhitespace(content[p + 1]))
                        => AdjacentInOutput(p)

\* with strip_comments disabled the text of the comments is emitted
CommentTextKeptWhenNotStripping ==
    (preview.called /\ ~config.strip_comments) =>
        \A p \in 1..Len(content) :
            (LexClass(content)[p] = "comment" /\ ~IsWhitespace(content[p])) => Occurrences(p) = 1

\* C2: with strip_comments enabled no emitted statement holds text of a
\* block comment or of a '--' or '#' comment whose marker is outside a
\* literal, and comment markers inside a literal are kept verbatim; with
\* strip_comments disabled the comment text is kept.
C2_CommentsStrippedOrKept ==
    /\ NoCommentTextWhenStripping
    /\ LiteralsKeptWhenStripping
    /\ CommentTextKeptWhenNotStripping

\* the positions of the file text that lie behind the last ';' that ended a
\* statement, are not whitespace and are not stripped as comment
RestAfterLastSplit ==
    LET lastSplit == IF preview.splits = <<>> THEN 0 ELSE Last(preview.splits)
    IN {p \in (lastSplit + 1)..Len(content) :
            /\ ~IsWhitespace(content[p])
            /\ ~(config.strip_comments /\ LexClass(content)[p] = "comment")}

FilePositions(st) == SelectSeq(st, LAMBDA p : p # 0)

\* C3: the statements are emitted in file order, none is empty or a bare
\* ';', statement_count = total_rows = number of statements, preview_rows
\* holds the first 10 at most; non-empty text behind the last ';' is one
\* final statement with exactly one warning, and without such text there is
\* no warning.
C3_StatementsCountsAndFinalWarning ==
    preview.called =>
        LET stmts == preview.sql_statements
            all   == FilePositions(Concat(stmts))
            n     == Len(stmts)
            rest  == RestAfterLastSplit
        IN /\ \A i, j \in 1..Len(all) : i < j => all[i] < all[j]
           /\ \A k \in 1..n : stmts[k] # <<>> /\ TextOf(content, stmts[k]) # <<";">>
           /\ preview.statement_count = n /\ preview.total_rows = n
           /\ Len(preview.preview_rows) = Min(n, 10)
           /\ \A k \in 1..Len(preview.preview_rows) : preview.preview_rows[k] = <<stmts[k]>>
           /\ rest # {} =>
                 /\ Len(preview.warnings) = 1
                 /\ n >= 1
                 /\ Range(FilePositions(stmts[n])) \subseteq rest \cup {p \in 1..Len(content) : IsWhitespace(content[p])}
                 /\ rest \subseteq Range(stmts[n])
                 /\ \A k \in 1..(n - 1) : Range(stmts[k]) \cap rest = {}
           /\ rest = {} =>
                 /\ preview.warnings = <<>>
                 /\ \A k \in 1..n : Last(stmts[k]) \in Range(preview.splits)

\* a file of more than 10 statements whose last one has no semicolon was parsed
C3_Witness ==
    /\ preview.called
    /\ Len(preview.sql_statements) > 10
    /\ Len(preview.warnings) = 1
    /\ Len(preview.splits) >= 10

(***************************************************************************)
(* Claims about DataGridState                                              *)
(***************************************************************************)
Clamp(x, lo, hi) == IF x < lo THEN lo ELSE IF x > hi THEN hi ELSE x

CountOrOne(g) == IF g.count = None THEN 1 ELSE Unwrap(g.count)

\* C4: with max_row >= 1 and max_col >= 1 move_cursor sets the cursor to
\* (clamp(row + delta_row * count, 0, max_row - 1),
\*  clamp(col + delta_col * count, 0, max_col - 1)), count being the pending
\* count prefix or 1, and leaves count = None.
C4_MoveCursorClamps ==
    [][\A d \in Deltas, max_row \in 1..MaxDim, max_col \in 1..MaxDim :
          MoveCursor(d, max_row, max_col) =>
              /\ grid'.cursor[1] = Clamp(grid.cursor[1] + d[1] * CountOrOne(grid), 0, max_row - 1)
              /\ grid'.cursor[2] = Clamp(grid.cursor[2] + d[2] * CountOrOne(grid), 0, max_col - 1)
              /\ grid'.count = None]_vars

\* the part of C4 that the code meets: the same, from the cursor positions
\* that are not above isize::MAX
MoveCursorClampsFromSmallPositions ==
    [][\A d \in Deltas, max_row \in 1..MaxDim, max_col \in 1..MaxDim :
          (/\ MoveCursor(d, max_row, max_col)
           /\ grid.cursor[1] <= IsizeMax
           /\ grid.cursor[2] <= IsizeMax) =>
              /\ grid'.cursor[1] = Clamp(grid.cursor[1] + d[1] * CountOrOne(grid), 0, max_row - 1)
              /\ grid'.cursor[2] = Clamp(grid.cursor[2] + d[2] * CountOrOne(grid), 0, max_col - 1)
              /\ grid'.count = None]_vars

\* C5: move_cursor called with max_row = 0 (max_col = 0) leaves the cursor
\* row (column) at 0, the index that goto_file_end(0) and goto_line_end(0)
\* produce.
C5_MoveCursorOnEmptyGrid ==
    [][\A d \in Deltas, max_row \in Dims, max_col \in Dims :
          MoveCursor(d, max_row, max_col) =>
              /\ max_row = 0 => /\ grid'.cursor[1] = 0
                                /\ grid'.cursor[1] = goto_file_end(grid, 0).cursor[1]
              /\ max_col = 0 => /\ grid'.cursor[2] = 0
                                /\ grid'.cursor[2] = goto_line_end(grid, 0).cursor[2]]_vars

\* C6: has_changes() is true exactly when modified_cells, rows_to_delete or
\* new_rows is non-empty; after clear_edits() the three collections are
\* empty, editing_cell is None, edit_text is empty and has_changes() is false.
C6_HasChangesAndClearEdits ==
    /\ has_changes(grid) <=>
          (Cardinality(grid.modified_cells) + Len(grid.rows_to_delete) + Len(grid.new_rows) > 0)
    /\ last_op = "clear_edits" =>
          /\ grid.modified_cells = {}
          /\ grid.rows_to_delete = <<>>
          /\ grid.new_rows = <<>>
          /\ grid.editing_cell = None
          /\ grid.edit_text = ""
          /\ ~has_changes(grid)

\* clear_edits has just discarded the edits of a grid whose cursor stands on an added row
C6_Witness ==
    /\ last_op = "clear_edits"
    /\ grid.cursor = <<1, 0>>
    /\ grid.mode = "Insert"
    /\ ~has_changes(grid)

\* the rows and columns a cell is looked up at
ProbeIndexes == 0..(MaxDim + 1) \cup {UsizeMax}

Between(x, a, b) == (a <= x /\ x <= b) \/ (b <= x /\ x <= a)

\* C7: get_selection is None exactly when select_anchor is None; otherwise it
\* is the bounding rectangle of anchor and cursor, and is_in_selection(r, c)
\* holds exactly for the cells of that rectangle, and for no cell when there
\* is no anchor.
C7_SelectionIsBoundingRectangle ==
    LET sel == get_selection(grid)
    IN /\ sel = None <=> grid.select_anchor = None
       /\ grid.select_anchor = None =>
             \A r \in ProbeIndexes, c \in ProbeIndexes : ~is_in_selection(grid, r, c)
       /\ grid.select_anchor # None =>
             LET a  == Unwrap(grid.select_anchor)
                 cu == grid.cursor
                 lo == Unwrap(sel)[1]
                 hi == Unwrap(sel)[2]
             IN /\ \A k \in 1..2 :
                      /\ lo[k] \in {a[k], cu[k]} /\ lo[k] <= a[k] /\ lo[k] <= cu[k]
                      /\ hi[k] \in {a[k], cu[k]} /\ hi[k] >= a[k] /\ hi[k] >= cu[k]
                /\ \A r \in ProbeIndexes, c \in ProbeIndexes :
                      is_in_selection(grid, r, c) <=>
                          (Between(r, a[1], cu[1]) /\ Between(c, a[2], cu[2]))
                /\ is_in_selection(grid, a[1], a[2])
                /\ is_in_selection(grid, cu[1], cu[2])

\* a selection whose anchor lies below and left of the cursor
C7_Witness ==
    /\ grid.select_anchor = Some(<<1, 0>>)
    /\ grid.cursor = <<0, 1>>
    /\ get_selection(grid) = Some(<<<<0, 0>>, <<1, 1>>>>)

\* what no goto operation changes: the mode, the selection anchor and the pending edits
GotoFrame ==
    /\ grid'.mode = grid.mode
    /\ grid'.select_anchor = grid.select_anchor
    /\ grid'.modified_cells = grid.modified_cells
    /\ grid'.rows_to_delete = grid.rows_to_delete
    /\ grid'.new_rows = grid.new_rows
    /\ grid'.editing_cell = grid.editing_cell
    /\ grid'.edit_text = grid.edit_text

\* the index n - 1 of the last of n rows or columns; an empty grid has index 0 (see C5)
LastIndex(n) == IF n >= 1 THEN n - 1 ELSE 0

\* C8: goto_line_start sets the column to 0 and goto_line_end(n) to n - 1,
\* both leaving the row; goto_file_start sets the cursor to (0, 0) and clears
\* the command buffer; goto_file_end(n) sets the row to n - 1 leaving the
\* column; each clears the count prefix and none changes the mode, the
\* selection anchor or the pending edits.
C8_GotoEffectsAndFrame ==
    [][/\ GotoLineStart =>
            /\ grid'.cursor = <<grid.cursor[1], 0>>
            /\ grid'.count = None /\ GotoFrame
       /\ \A n \in Dims : GotoLineEnd(n) =>
            /\ grid'.cursor = <<grid.cursor[1], LastIndex(n)>>
            /\ grid'.count = None /\ GotoFrame
       /\ GotoFileStart =>
            /\ grid'.cursor = <<0, 0>>
            /\ grid'.command_buffer = ""
            /\ grid'.count = None /\ GotoFrame
       /\ \A n \in Dims : GotoFileEnd(n) =>
            /\ grid'.cursor = <<LastIndex(n), grid.cursor[2]>>
            /\ grid'.count = None /\ GotoFrame]_vars

\* goto_file_start has acted on a grid in Select mode with a selection and pending edits
C8_Witness ==
    /\ last_op = "goto_file_start"
    /\ grid.mode = "Select"
    /\ grid.select_anchor # None
    /\ has_changes(grid)
    /\ grid.editing_cell # None

(***************************************************************************)
(* Claims about the channel and the frame loop                             *)
(***************************************************************************)
IsPrefix(a, b) == Len(a) <= Len(b) /\ SubSeq(b, 1, Len(a)) = a

MessagesOf(h) == [i \in 1..Len(h) |-> h[i][1]]

\* the handler of each message kind
ExpectedHandlers ==
    {<<"ConnectedWithTables", "handle_connected_with_tables">>,
     <<"ConnectedWithDatabases", "handle_connected_with_databases">>,
     <<"DatabaseSelected", "handle_database_selected">>,
     <<"QueryDone", "handle_query_done">>,
     <<"PrimaryKeyFetched", "handle_primary_key_fetched">>,
     <<"TriggersFetched", "handle_triggers_fetched">>,
     <<"RoutinesFetched", "handle_routines_fetched">>,
     <<"ForeignKeysFetched", "handle_foreign_keys_fetched">>,
     <<"ERTableColumnsFetched", "handle_er_table_columns_fetched">>}

\* the messages are handled in the order they were sent, none skipped, none twice
HandledInSendOrder == done = [i \in 1..Len(done) |-> i]

\* a turn of the loop takes the oldest message and gives it to the handler of its kind
OldestToItsHandler ==
    (pc = "messages" /\ Len(chan') < Len(chan)) =>
        /\ chan' = Tail(chan)
        /\ Len(handled') = Len(handled) + 1
        /\ Last(handled')[1] = Head(chan)
        /\ <<Head(chan).kind, Last(handled')[2]>> \in ExpectedHandlers
        /\ Cardinality({h \in ExpectedHandlers : h[1] = Head(chan).kind}) = 1
        /\ app' = RunHandler(Last(handled')[2], app, Head(chan))

\* at the return the channel is empty and the messages that were in the
\* channel at the call are the first ones handled, each once
ReturnsWhenEmpty ==
    (pc = "messages" /\ pc' = "body") =>
        /\ chan = <<>>
        /\ IsPrefix(snapshot, MessagesOf(handled))
        /\ \A i, j \in 1..Len(handled) : handled[i][1].seq = handled[j][1].seq => i = j

\* C9: handle_messages handles every message that is in the channel when it
\* is called, each exactly once and in the order the messages were sent,
\* gives each message to exactly one handler, and returns only when try_recv
\* finds the channel empty.
C9_HandleMessagesFifoExactlyOnce ==
    [][HandledInSendOrder' /\ OldestToItsHandler /\ ReturnsWhenEmpty]_vars

\* handle_messages has returned after handling a message that was in the
\* channel at the call and one that arrived during the call
C9_Witness ==
    /\ pc = "body"
    /\ Len(snapshot) >= 1
    /\ Len(handled) > Len(snapshot)
    /\ chan = <<>>

\* the tasks the claim speaks of: connection, query, trigger and routine load,
\* ER column and foreign-key fetch
RefreshingKinds == Kinds \ {"PrimaryKeyFetched"}

\* a task of the kind is running or its message waits in the channel
Unhandled(kind) ==
    \/ app.tasks[kind] > 0
    \/ \E i \in 1..Len(chan) : chan[i].kind = kind

\* C10: whenever a background task spawned by the app has sent or will send
\* a message that is not yet handled, update() has requested another repaint
\* when it returns, so the message is handled without further user input.
C10_RepaintWhileTasksActive ==
    (pc = "idle" /\ \E kind \in RefreshingKinds : Unhandled(kind)) => repaint

(***************************************************************************)
(* Claims about the primary-key column                                     *)
(***************************************************************************)
\* column primary_key_column of the result shown is the primary key of the selected table
PrimaryKeyColumnIsRight ==
    view.primary_key_column # None =>
        /\ view.selected_table # None
        /\ view.result # None
        /\ PrimaryKeyOf(Unwrap(view.selected_table)) # None
        /\ Unwrap(view.primary_key_column) + 1 <= Len(Unwrap(view.result))
        /\ Unwrap(view.result)[Unwrap(view.primary_key_column) + 1]
              = Unwrap(PrimaryKeyOf(Unwrap(view.selected_table)))

\* a PrimaryKeyFetched for a table that is not selected leaves the column as it is
OtherTableLeavesColumn ==
    \A msg \in view.pending :
        (HandlePrimaryKeyFetched(msg) /\ view.selected_table # Some(msg.table)) =>
            view'.primary_key_column = view.primary_key_column

\* C11: whenever grid_state.primary_key_column is Some(i), column i of the
\* result shown is the primary-key column of the selected table, in every
\* interleaving of the PrimaryKeyFetched and QueryDone messages that follow a
\* table switch; a PrimaryKeyFetched for another table leaves it unchanged.
C11_PrimaryKeyColumnIndex ==
    [][PrimaryKeyColumnIsRight' /\ OtherTableLeavesColumn]_vars

(***************************************************************************)
(* Claims about the filter cache                                           *)
(***************************************************************************)
\* C12: for every way the list grid_state.filters is modified,
\* filter_cache.invalidate() is called before the next call of
\* filter_rows_cached: when filter_rows_cached is about to be called, no
\* modification of the list is left without an invalidate() after it.
C12_InvalidateBeforeFilterRows ==
    filt.at = "rows" => ~filt.stale

(***************************************************************************)
(* Claims about QueryTabManager                                            *)
(***************************************************************************)
TabCount == Len(tabs.mgr.tabs)

Creators == {"new_tab", "new_tab_with_sql", "new_tab_for_table"}

\* C13: after any sequence of QueryTabManager operations the manager holds
\* at least one tab and at most max_tabs tabs: close_tab on the only
\* remaining tab changes nothing, and the creating operations add no tab once
\* max_tabs is reached.
C13_TabCountWithinBounds ==
    [][/\ TabCount' >= 1
       /\ TabCount' <= tabs'.mgr.max_tabs
       /\ (tabs'.op = "close_tab" /\ TabCount = 1) => tabs'.mgr = tabs.mgr
       /\ (tabs'.op \in Creators /\ TabCount >= tabs.mgr.max_tabs) => TabCount' = TabCount]_vars

\* new_tab_with_sql was called at max_tabs: it added no tab and gave its text
\* to the active tab, one made by new_tab
C13_Witness ==
    /\ tabs.op = "new_tab_with_sql"
    /\ TabCount = tabs.mgr.max_tabs
    /\ tabs.mgr.tabs[tabs.mgr.active_index + 1].title = <<QueryPrefix, "2">>
    /\ tabs.mgr.tabs[tabs.mgr.active_index + 1].modified = FALSE

TabsForTable(m, t) == {i \in 1..Len(m.tabs) : m.tabs[i].table_name = Some(t)}

\* C14: new_tab_for_table(t, sql) activates the existing tab instead of
\* creating one when a tab for table t exists (it returns that tab's index
\* and adds no tab), so no two tabs have the same table_name.  (The table of
\* a call is the table of the tab that is active after it.)
C14_OneTabPerTable ==
    [][/\ \A t \in TabTables : Cardinality(TabsForTable(tabs'.mgr, t)) <= 1
       /\ \A t \in TabTables :
            (/\ tabs'.op = "new_tab_for_table"
             /\ TabsForTable(tabs.mgr, t) # {}
             /\ tabs'.mgr.active_index + 1 \in TabsForTable(tabs'.mgr, t)) =>
                /\ tabs'.mgr.tabs = tabs.mgr.tabs
                /\ tabs'.ret + 1 \in TabsForTable(tabs.mgr, t)
                /\ tabs'.mgr.active_index = tabs'.ret]_vars

\* new_tab_for_table has activated an existing tab that was not the active one
C14_Witness ==
    /\ tabs.op = "new_tab_for_table"
    /\ TabCount = 2
    /\ tabs.ret = 0
    /\ tabs.mgr.active_index = 0
    /\ tabs.mgr.tabs[1].table_name = Some("t")
    /\ tabs.mgr.tabs[2].table_name = None

\* the numbers of the numbered query tabs
NumbersUsed(m) ==
    {n \in 1..(Len(m.tabs) + 1) :
        \E i \in 1..Len(m.tabs) : m.tabs[i].title = <<QueryPrefix>> \o ToDigits(n)}

SmallestUnused(m) ==
    CHOOSE n \in 1..(Len(m.tabs) + 1) :
        /\ n \notin NumbersUsed(m)
        /\ \A k \in 1..(n - 1) : k \in NumbersUsed(m)

C16_TabKeepsItsEditorText ==
    [][\A idx \in 0..(Len(tabs.mgr.tabs) - 1) :
          (/\ tabs'.op = "switch_to"
           /\ idx # tabs.mgr.active_index
           /\ tabs'.mgr.active_index = idx
           /\ tabs.mgr.tabs[idx + 1].left # None) =>
              /\ tabs'.sql = Unwrap(tabs.mgr.tabs[idx + 1].left)
              /\ tabs'.result = tabs.mgr.tabs[idx + 1].produced]_vars
(***************************************************************************)
(* Keyboard focus claim                                                     *)
(***************************************************************************)
\* C17: within one frame of update the pressed key is processed by the
\* keyboard handler of at most one focus area; an area that receives the
\* focus from another in that frame does not handle the same key again.
C17_OneAreaHandlesKey == Cardinality(focus.handled) <= 1
(***************************************************************************)
(* ER diagram claim                                                         *)
(***************************************************************************)
\* The from_column of every fetched foreign key is marked in its ER table.
ForeignKeysMarked ==
    \A i \in 1..Len(Unwrap(er.fetched)) :
        \A t \in 1..Len(er.tables) :
            \A c \in 1..Len(er.tables[t].columns) :
                (/\ er.tables[t].name = Unwrap(er.fetched)[i].from_table
                 /\ er.tables[t].columns[c].name = Unwrap(er.fetched)[i].from_column)
                    => er.tables[t].columns[c].is_foreign_key

\* C18: once every message of an ER-diagram load has been handled, in
\* whatever order, each column that is the from_column of a fetched foreign
\* key has is_foreign_key set in its ER table, and loading is false.
C18_ForeignKeysMarkedAfterLoad ==
    (er.pending = {} /\ er.fetched # None) => (ForeignKeysMarked /\ ~er.loading)
(***************************************************************************)
(* Sidebar list claim                                                       *)
(***************************************************************************)
\* C19: once every outstanding TriggersFetched (RoutinesFetched) message has
\* been handled, the sidebar shows the list returned for the most recent
\* load_triggers (load_routines) request, whatever the order in which the
\* background tasks completed.
C19_LatestRequestWins ==
    \A list \in SidebarLists :
        (/\ \A request \in side.pending : request.list # list
         /\ side.answer[list] # None
         /\ Unwrap(side.answer[list]).ok)
            => side.items[list] = Unwrap(side.answer[list]).items

====
